---- MODULE Spec2Model ----
(***************************************************************************)
(* State-machine model of the data plot widget (Dtat_anal_lib.py): the     *)
(* trace registry DataPlotWidget.datasets, the dataset table, the filter   *)
(* dialog with its three smoothing routines, the formula evaluation of     *)
(* apply_math_expr and the view of the axes (limits, scale mode, grid);    *)
(* and of Beam_Graphix.Draw_QP (Graphics_Lib.py).  Numbers are exact       *)
(* rationals extended with +inf, -inf and nan, so that the arithmetic of   *)
(* the numeric library is computed and not abstracted.                     *)
(***************************************************************************)
EXTENDS Integers, Sequences, FiniteSets, TLC

VARIABLES datasets, table, connects, auto_scale_x, xlim, ylim, grid, dlg, last,
          call, events, grid_checkbox, logx_btn, logy_btn, scene, qp

vars == <<datasets, table, connects, auto_scale_x, xlim, ylim, grid, dlg, last,
          call, events, grid_checkbox, logx_btn, logy_btn, scene, qp>>

\* the checkable buttons of the control row other than Auto-Scale X
panel == <<grid_checkbox, logx_btn, logy_btn>>

\* the beam-line scene and the quadrupole record handed to Draw_QP
beam == <<scene, qp>>

(***************************************************************************)
(* Bounds of the model.                                                    *)
(***************************************************************************)
\* largest number of traces the registry is allowed to reach
MaxTraces == 3
\* largest window value entered in the filter dialog / passed to a filter
MaxWin == 4
\* largest polynomial order entered in the filter dialog
MaxPoly == 3
\* longest input array of a direct filter call
MaxLen == 3
\* number of user events in one run of the widget
MaxEvents == 4

(***************************************************************************)
(* Numbers: a rational n/d in lowest terms with d > 0; d = 0 encodes the   *)
(* non-finite floating point values (n = 1: +inf, n = -1: -inf, n = 0: nan)*)
(***************************************************************************)
RECURSIVE GCD(_, _)
GCD(a, b) == IF b = 0 THEN a ELSE GCD(b, a % b)

IAbs(n) == IF n < 0 THEN -n ELSE n

Sgn(n) == IF n < 0 THEN -1 ELSE IF n > 0 THEN 1 ELSE 0

Q(n, d) ==
    IF d = 0 THEN [n |-> Sgn(n), d |-> 0]
    ELSE LET g == GCD(IAbs(n), IAbs(d))
             s == IF d < 0 THEN -1 ELSE 1
         IN  [n |-> (s * n) \div g, d |-> (s * d) \div g]

QInt(k) == [n |-> k, d |-> 1]

NaN == [n |-> 0, d |-> 0]

isfinite(q) == q.d # 0

QNeg(a) == [n |-> -a.n, d |-> a.d]

QAdd(a, b) ==
    IF isfinite(a) /\ isfinite(b) THEN Q(a.n * b.d + b.n * a.d, a.d * b.d)
    ELSE IF a = NaN \/ b = NaN THEN NaN
    ELSE IF ~isfinite(a) /\ ~isfinite(b) THEN (IF a = b THEN a ELSE NaN)
    ELSE IF isfinite(a) THEN b ELSE a

QSub(a, b) == QAdd(a, QNeg(b))

QMul(a, b) == Q(a.n * b.n, a.d * b.d)

QRecip(a) == Q(a.d, a.n)

QDiv(a, b) == QMul(a, QRecip(b))

QAbs(a) == [n |-> IAbs(a.n), d |-> a.d]

\* a < b for finite a, b
QLess(a, b) == a.n * b.d < b.n * a.d

QMin(a, b) == IF QLess(b, a) THEN b ELSE a

QMax(a, b) == IF QLess(a, b) THEN b ELSE a

(***************************************************************************)
(* Arrays are sequences of numbers.                                        *)
(***************************************************************************)
\* Python a[lo:hi] for 0 <= lo, 0 <= hi (0-based, hi exclusive, clipped)
Slice(a, lo, hi) ==
    LET h == IF hi > Len(a) THEN Len(a) ELSE hi
    IN  IF lo >= h THEN <<>> ELSE [k \in 1..(h - lo) |-> a[lo + k]]

ScaleArr(a, s) == [k \in 1..Len(a) |-> QMul(a[k], s)]

RECURSIVE SumArr(_)
SumArr(a) == IF a = <<>> THEN QInt(0) ELSE QAdd(a[1], SumArr(Tail(a)))

RECURSIVE MinArr(_)
MinArr(a) == IF Len(a) = 1 THEN a[1] ELSE QMin(a[1], MinArr(Tail(a)))

RECURSIVE MaxArr(_)
MaxArr(a) == IF Len(a) = 1 THEN a[1] ELSE QMax(a[1], MaxArr(Tail(a)))

AllFinite(a) == \A k \in 1..Len(a) : isfinite(a[k])

\* np.linspace(0, 10, n)
linspace(n) == [k \in 1..n |-> IF n = 1 THEN QInt(0) ELSE Q(10 * (k - 1), n - 1)]

(***************************************************************************)
(* Signal filters (FilterDialog.moving_average / cosine_smooth / sg_filter) *)
(* A filter call returns [ok, y, msg]: ok = FALSE is a raised ValueError.  *)
(***************************************************************************)
Raised(m) == [ok |-> FALSE, y |-> <<>>, msg |-> m]

Returned(a) == [ok |-> TRUE, y |-> a, msg |-> ""]

\* np.convolve(a, v, mode="full"): full[n] = sum over m of a[n-m] * v[m]
ConvFull(a, v) ==
    [n \in 1..(Len(a) + Len(v) - 1) |->
        SumArr([m \in 1..Len(v) |->
            IF n - m + 1 >= 1 /\ n - m + 1 <= Len(a)
            THEN QMul(a[n - m + 1], v[m]) ELSE QInt(0)])]

\* variant: the kept part starts one sample late for an even kernel
SameOffsetLate(M) == M \div 2

\* first index of the full convolution kept by mode="same"
SameOffset(M) == (M - 1) \div 2

\* np.convolve(a, v, mode="same") for Len(v) <= Len(a)
ConvSame(a, v) ==
    LET full == ConvFull(a, v)
    IN  [i \in 1..Len(a) |-> full[i + SameOffset(Len(v))]]

\* np.ones(window) / window
UniformKernel(window) == [k \in 1..window |-> Q(1, window)]

\* np.hanning(M): 0.5 - 0.5 cos(2 pi k / (M - 1)), rational for M <= 5
hanning(M) ==
    CASE M = 1 -> <<QInt(1)>>
      [] M = 2 -> <<QInt(0), QInt(0)>>
      [] M = 3 -> <<QInt(0), QInt(1), QInt(0)>>
      [] M = 4 -> <<QInt(0), Q(3, 4), Q(3, 4), QInt(0)>>
      [] M = 5 -> <<QInt(0), Q(1, 2), QInt(1), Q(1, 2), QInt(0)>>

\* variant: the window is not compared with the length of the data
moving_average_unchecked(y, window) ==
    IF window <= 0 THEN Raised("Window must be > 0")
    ELSE Returned(ConvSame(y, UniformKernel(window)))

moving_average(y, window) ==
    IF window <= 0 THEN Raised("Window must be > 0")
    ELSE IF window > Len(y) THEN Raised("Window larger than dataset")
    ELSE Returned(ConvSame(y, UniformKernel(window)))

cosine_smooth(y, window) ==
    IF window <= 0 THEN Raised("Window must be > 0")
    ELSE IF window > Len(y) THEN Raised("Window larger than dataset")
    ELSE LET w == hanning(window)
             s == SumArr(w)
         IN  Returned(ConvSame(y, [k \in 1..window |-> QDiv(w[k], s)]))

\* least-squares straight line through the w points y[s+1..s+w] (positions
\* 0..w-1), evaluated at position e
LinFit(y, s, w, e) ==
    LET u(t) == 2 * t - (w - 1)
        mean == QDiv(SumArr([t \in 1..w |-> y[s + t]]), QInt(w))
        suy == SumArr([t \in 1..w |-> QMul(QInt(u(t - 1)), y[s + t])])
        suu == SumArr([t \in 1..w |-> QInt(u(t - 1) * u(t - 1))])
    IN  IF w = 1 THEN y[s + 1]
        ELSE QAdd(mean, QMul(QDiv(suy, suu), QInt(u(e))))

\* scipy.signal.savgol_filter(y, window, poly), mode="interp": sample i is the
\* fitted polynomial of its centred window; the first and last halflen
\* samples use the fit of the first and last window
savgol_filter(y, window, poly) ==
    LET N == Len(y)
        half == (window - 1) \div 2
        start(i) == IF i - 1 < half THEN 0
                    ELSE IF i - 1 >= N - half THEN N - window
                    ELSE i - 1 - half
    IN  [i \in 1..N |->
            CASE poly = window - 1 -> y[i]
              [] poly = 1 /\ window > 2 -> LinFit(y, start(i), window, i - 1 - start(i))]

\* variant: an even window is used as it is
EffectiveWindowAsGiven(window) == window

\* window actually used by sg_filter
EffectiveWindow(window) == IF window % 2 = 0 THEN window + 1 ELSE window

sg_filter(y, window, poly) ==
    LET w == EffectiveWindow(window)
    IN  IF w > Len(y) THEN Raised("Window larger than dataset")
        ELSE IF poly >= w THEN Raised("Polyorder must be less than window size")
        ELSE Returned(savgol_filter(y, w, poly))

(***************************************************************************)
(* The chart widget (DataPlotWidget).                                      *)
(*   datasets      the trace registry: records [x, y, line, label, name,   *)
(*                 visible]; line is the rendered artist                   *)
(*   table         one record per table row                                *)
(*   connects      number of connections of table.itemDoubleClicked and    *)
(*                 table.itemChanged made so far                           *)
(*   auto_scale_x  the auto-scale flag                                     *)
(*   xlim          horizontal view: auto = TRUE while the plotting library *)
(*                 still autoscales it, else the limits set by set_xlim    *)
(*   ylim          vertical view, as xlim                                  *)
(*   grid          grid of the axes: [on, style]                           *)
(*   grid_checkbox, logx_btn, logy_btn                                     *)
(*                 checked state of Toggle Grid / Toggle Log X / Log Y     *)
(*   dlg           the modal filter dialog: [open, n] (n combo entries)    *)
(*   last          the last handler run and how it ended; for an event of  *)
(*                 table.itemChanged or table.itemDoubleClicked, runs is   *)
(*                 the number of times the connected handler ran           *)
(*   call          a direct call of one filter routine                     *)
(*   events        number of user events handled so far                    *)
(***************************************************************************)

\* texts typed into a Y-Scale cell; float(text) raises ValueError on "abc"
ScaleTexts == {"1.0", "2", "abc"}

float_ok(t) == t \in {"1.0", "2"}

float(t) == IF t = "2" THEN QInt(2) ELSE QInt(1)

\* one pass of the loop body of update_plot over trace d and its table row
PlotRow(d, row) ==
    LET scale == IF float_ok(row.yscale) THEN float(row.yscale) ELSE QInt(1)
        idx_min == 0
        idx_max == Len(d.x)
    IN  [d EXCEPT !.visible = row.visible,
                  !.line = [d.line EXCEPT
                      !.visible = row.visible,
                      !.xdata = Slice(d.x, idx_min, idx_max),
                      !.ydata = ScaleArr(Slice(d.y, idx_min, idx_max), scale)]]

\* np.min(full_x) raises ValueError on an empty array
ExtentRaises(ds, tbl, auto, r) == auto /\ tbl[r].visible /\ Len(ds[r].x) = 0

\* the rows whose x-extent is accumulated
ExtentRows(ds, tbl, auto) == {r \in 1..Len(ds) : auto /\ tbl[r].visible}

RECURSIVE ExtentOf(_, _, _)
\* (x_min, x_max) over the rows of set R, in the order lo, hi
ExtentOf(ds, R, acc) ==
    IF R = {} THEN acc
    ELSE LET r == CHOOSE q \in R : TRUE
             lo == MinArr(ds[r].x)
             hi == MaxArr(ds[r].x)
         IN  ExtentOf(ds, R \ {r},
                 IF acc = <<>> THEN <<lo, hi>>
                 ELSE <<QMin(acc[1], lo), QMax(acc[2], hi)>>)

\* the view limits of a new Axes: (0, 1), autoscaling on
UnitLim == [auto |-> TRUE, lo |-> QInt(0), hi |-> QInt(1)]

\* Axes.set_xlim(lo, hi) / set_ylim(lo, hi) on the limits old: autoscaling of
\* that axis goes off; on a log-scaled axis a bound that is not positive is
\* ignored and the old bound stays
set_lim(old, lo, hi, log) ==
    [auto |-> FALSE,
     lo |-> IF log /\ ~QLess(QInt(0), lo) THEN old.lo ELSE lo,
     hi |-> IF log /\ ~QLess(QInt(0), hi) THEN old.hi ELSE hi]

\* <<min, max>> of a set of finite numbers, <<>> for the empty set
Interval(vals) ==
    IF vals = {} THEN <<>>
    ELSE <<CHOOSE v \in vals : \A u \in vals : ~QLess(u, v),
           CHOOSE v \in vals : \A u \in vals : ~QLess(v, u)>>

\* Axes.relim(): the data interval <<min, max>> of all the lines, hidden
\* ones included; <<>> without data
relim(arrs) ==
    Interval({v \in UNION {{arrs[r][k] : k \in 1..Len(arrs[r])} :
                             r \in 1..Len(arrs)} : isfinite(v)})

\* share of the data interval added on each side of an autoscaled view
Margin == Q(1, 20)

\* the interval autoscale_view starts from for the data interval iv: without
\* data (-0.05, 0.05); a single value is widened by 5 percent
Nonsingular(iv) ==
    IF iv = <<>> THEN <<QNeg(Margin), Margin>>
    ELSE IF iv[1] # iv[2] THEN iv
    ELSE IF iv[1] = QInt(0) THEN <<QNeg(Margin), Margin>>
    ELSE <<QSub(iv[1], QMul(Margin, QAbs(iv[1]))),
           QAdd(iv[2], QMul(Margin, QAbs(iv[2])))>>

\* the interval v with the margin delta added on each side
Widened(v, delta) ==
    [auto |-> TRUE, lo |-> QSub(v[1], delta), hi |-> QAdd(v[2], delta)]

\* the autoscaled limits over the interval v
WithMargins(v) == Widened(v, QMul(Margin, QSub(v[2], v[1])))

\* Axes.autoscale_view() for one linear axis with limits lim and data
\* interval iv: nothing while autoscaling is off; without data the default
\* view (-0.05, 0.05) unless the limits were already moved off (0, 1); a
\* single value is widened by 5 percent; then the margins are added
autoscale_view(lim, iv) ==
    IF ~lim.auto THEN lim
    ELSE IF iv = <<>> /\ lim # UnitLim THEN lim
    ELSE WithMargins(Nonsingular(iv))

\* the lines of registry ds after the loop of update_plot, which stops at
\* row stop
Drawn(ds, tbl, stop) ==
    [r \in 1..Len(ds) |-> IF r <= stop THEN PlotRow(ds[r], tbl[r]) ELSE ds[r]]

\* the horizontal limits after "if self.auto_scale_x and x_min < x_max:
\* set_xlim(x_min, x_max)" for the accumulated extent ext
XLimits(xl, ext, auto) ==
    IF auto /\ ext # <<>> /\ QLess(ext[1], ext[2])
    THEN set_lim(xl, ext[1], ext[2], logx_btn)
    ELSE xl

\* relim(), autoscale_view(scaley=True), grid(True) on the lines ds2
Rescaled(ds2, xl2, yl, gr) ==
    [datasets |-> ds2,
     xlim |-> autoscale_view(xl2,
                  relim([r \in 1..Len(ds2) |-> ds2[r].line.xdata])),
     ylim |-> autoscale_view(yl,
                  relim([r \in 1..Len(ds2) |-> ds2[r].line.ydata])),
     grid |-> [gr EXCEPT !.on = TRUE],
     raised |-> FALSE]

\* the first row at which np.min(full_x) raises, Len(ds) when none does
StopRow(ds, bad) ==
    IF bad = {} THEN Len(ds) ELSE CHOOSE r \in bad : \A q \in bad : r <= q

\* update_plot: [datasets, xlim, ylim, grid, raised]
update_plot(ds, tbl, auto, xl, yl, gr) ==
    LET bad == {r \in 1..Len(ds) : ExtentRaises(ds, tbl, auto, r)}
    IN  IF bad # {}
        THEN [datasets |-> Drawn(ds, tbl, StopRow(ds, bad)),
              xlim |-> xl, ylim |-> yl, grid |-> gr, raised |-> TRUE]
        ELSE Rescaled(Drawn(ds, tbl, Len(ds)),
                      XLimits(xl, ExtentOf(ds, ExtentRows(ds, tbl, auto), <<>>),
                              auto),
                      yl, gr)

\* colour the property cycle gives the n-th line of the axes
CycleColor(n) == "C" \o ToString(n % 10)

\* variant: the Name cell gets the default label instead of the trace's
NewRowDefaultName(x, label, color) ==
    [name |-> "Data", points |-> ToString(Len(x)), style |-> "-",
     color |-> color, visible |-> TRUE, yscale |-> "1.0",
     selection |-> "", sliders |-> FALSE, smin |-> 0, smax |-> 0]

\* the cells add_dataset sets before it redraws: Name, Points, Style, Color,
\* Visible, Y-Scale; the Selection cell and its sliders come after the redraw
NewRow(x, label, color) ==
    [name |-> label, points |-> ToString(Len(x)), style |-> "-",
     color |-> color, visible |-> TRUE, yscale |-> "1.0",
     selection |-> "", sliders |-> FALSE, smin |-> 0, smax |-> 0]

\* the end of add_dataset: up is what update_plot returned for the registry
\* with the new trace and the table tbl with its new row; full is that row
\* with its Selection cell and sliders, set only when update_plot returned
AfterRedraw(up, tbl, full) ==
    [datasets |-> up.datasets,
     table |-> IF up.raised THEN tbl ELSE Append(table, full),
     connects |-> connects + 1,
     xlim |-> up.xlim, ylim |-> up.ylim, grid |-> up.grid,
     raised |-> up.raised,
     msg |-> IF up.raised
             THEN "zero-size array to reduction operation minimum which has no identity"
             ELSE ""]

\* add_dataset(x, y, label) on the current state; yview tells that the array
\* object y is a view of the stored y array of trace 1:
\* [datasets, table, connects, xlim, ylim, grid, raised, msg]
add_dataset(x, y, label, yview) ==
    IF Len(x) # Len(y)
    THEN \* ax.plot raises before anything is stored
         [datasets |-> datasets, table |-> table, connects |-> connects,
          xlim |-> xlim, ylim |-> ylim, grid |-> grid, raised |-> TRUE,
          msg |-> "x and y must have same first dimension"]
    ELSE
    LET line == [xdata |-> x, ydata |-> y, visible |-> TRUE, label |-> label,
                 linestyle |-> "-", color |-> CycleColor(Len(datasets))]
        \* setItem(row, 0, ...) emits cellChanged: on_table_name_changed
        \* stores the name and relabels the line
        row == NewRow(x, label, line.color)
        d == [x |-> x, y |-> y, line |-> [line EXCEPT !.label = row.name],
              label |-> label, name |-> row.name, visible |-> TRUE,
              yview |-> yview]
        tbl == Append(table, row)
        full == [row EXCEPT !.selection = "1.0", !.sliders = TRUE,
                            !.smin = 0, !.smax = Len(x) - 1]
    IN  AfterRedraw(update_plot(Append(datasets, d), tbl, auto_scale_x, xlim,
                                ylim, grid),
                    tbl, full)

NoCall == [state |-> "none", kind |-> "", y |-> <<>>, window |-> 0, poly |-> 0,
           result |-> Returned(<<>>)]

Idle == [op |-> "init", outcome |-> "ok", msg |-> "", arg |-> "", idx |-> 0,
         runs |-> 0]

WidgetInit ==
    /\ datasets = <<>>
    /\ table = <<>>
    /\ connects = 0
    /\ auto_scale_x = TRUE
    /\ xlim = UnitLim
    /\ ylim = UnitLim
    /\ grid = [on |-> TRUE, style |-> "-"]
    /\ grid_checkbox = TRUE
    /\ logx_btn = FALSE
    /\ logy_btn = FALSE
    /\ dlg = [open |-> FALSE, n |-> 0]
    /\ last = Idle
    /\ events = 0

\* one more user event
Tick == events < MaxEvents /\ events' = events + 1

\* no quadrupole is being drawn
NoQP == [state |-> "none", QP |-> <<>>]

NoBeam == scene = <<>> /\ qp = NoQP

Init == WidgetInit /\ call = NoCall /\ NoBeam

\* what a handler leaves behind: the result r of add_dataset and the record
\* of the handler's end
Install(r, l) ==
    /\ datasets' = r.datasets
    /\ table' = r.table
    /\ connects' = r.connects
    /\ xlim' = r.xlim
    /\ ylim' = r.ylim
    /\ grid' = r.grid
    /\ last' = l

\* Install for a handler whose record is l0 when add_dataset returned; when
\* add_dataset raised, the exception ends the handler as how ("escaped": it
\* leaves the handler, "notice": it is caught and shown)
InstallOr(r, l0, how) ==
    Install(r, IF r.raised THEN [l0 EXCEPT !.outcome = how, !.msg = r.msg]
               ELSE l0)

\* number of points of a synthetic trace
SynthLen == 3

\* sample arrays np.sin(x) + noise may give (any reals): one with zeros,
\* one without
SynthY == {[k \in 1..SynthLen |-> QInt(k % 2)], [k \in 1..SynthLen |-> QInt(k)]}

\* add_data: the "Add Data" button
add_data(y) ==
    /\ Tick
    /\ ~dlg.open
    /\ Len(datasets) < MaxTraces
    /\ InstallOr(add_dataset(linspace(SynthLen), y,
                             "Data" \o ToString(Len(datasets) + 1), FALSE),
                 [Idle EXCEPT !.op = "add_data"], "escaped")
    /\ UNCHANGED <<auto_scale_x, dlg, call, panel, beam>>

(***************************************************************************)
(* The filter dialog (FilterDialog).  It is modal: while it is open no     *)
(* other control of the widget can be used.  apply_filter never closes it. *)
(***************************************************************************)
FilterKinds == {"Moving Average", "Cosine", "Savitzky-Golay"}

open_filter_dialog ==
    /\ Tick
    /\ ~dlg.open
    /\ dlg' = [open |-> TRUE, n |-> Len(datasets)]
    /\ UNCHANGED <<datasets, table, connects, auto_scale_x, xlim, ylim, grid, last, call, panel, beam>>

\* the user closes the dialog window
close_filter_dialog ==
    /\ Tick
    /\ dlg.open
    /\ dlg' = [open |-> FALSE, n |-> 0]
    /\ UNCHANGED <<datasets, table, connects, auto_scale_x, xlim, ylim, grid, last, call, panel, beam>>

RunFilter(ftype, y, win, poly) ==
    CASE ftype = "Moving Average" -> moving_average(y, win)
      [] ftype = "Cosine" -> cosine_smooth(y, win)
      [] ftype = "Savitzky-Golay" -> sg_filter(y, win, poly)

FilterSuffix(ftype) ==
    CASE ftype = "Moving Average" -> "_MA"
      [] ftype = "Cosine" -> "_Cosine"
      [] ftype = "Savitzky-Golay" -> "_SG"

\* variant: the label carries the 0-based combo index
FilterLabelZeroBased(idx, ftype) == "T" \o ToString(idx) \o FilterSuffix(ftype)

\* label of the trace a filter adds for the source at combo index idx
FilterLabel(idx, ftype) == "T" \o ToString(idx + 1) \o FilterSuffix(ftype)

\* the handler ends with the warning box showing m
Notice(l0, m) ==
    /\ last' = [l0 EXCEPT !.outcome = "notice", !.msg = m]
    /\ UNCHANGED <<datasets, table, connects, xlim, ylim, grid>>

\* apply_filter once the filter call on trace ds has ended as res
Filtered(res, ds, idx, ftype, l0) ==
    IF ~res.ok THEN Notice(l0, res.msg)
    ELSE IF ~AllFinite(res.y) THEN Notice(l0, "Invalid values in filter result")
    ELSE InstallOr(add_dataset(ds.x, res.y, FilterLabel(idx, ftype), FALSE),
                   l0, "notice")

\* apply_filter: idx is dataset_box.currentIndex() (-1 for an empty box)
apply_filter(idx, ftype, win, poly) ==
    /\ Tick
    /\ dlg.open
    /\ Len(datasets) < MaxTraces
    /\ idx \in (IF dlg.n = 0 THEN {-1} ELSE 0..(dlg.n - 1))
    /\ LET l0 == [Idle EXCEPT !.op = "filter", !.arg = ftype, !.idx = idx]
       IN  IF idx = -1
           THEN \* self.datasets[-1] on an empty list
                Notice(l0, "list index out of range")
           ELSE Filtered(RunFilter(ftype, datasets[idx + 1].y, win, poly),
                         datasets[idx + 1], idx, ftype, l0)
    /\ UNCHANGED <<auto_scale_x, dlg, call, panel, beam>>

(***************************************************************************)
(* Formula evaluation (open_math_dialog / apply_math_expr).  A formula is  *)
(* one of the texts of Exprs; EvalExpr gives what Python's eval does with  *)
(* its transliteration in the environment safe_env.                        *)
(***************************************************************************)
Exprs == {"T1.y - T2.y", "T2.y * 2", "T9.y", "T1.y +", "1 + 1", "1 / T1.y",
          "np.abs(T1.y)", "abs([1, -1, 1])", "T1.y[0:1]",
          "(T1.x[0:1], T1.y[0:1])", "(T1.x[0:0], T1.y[0:0])", "T1.y.fill(0)"}

\* the formulas that contain the text "fft"
FftExprs == {}

\* np.interp(x, xp, fp) at one point x: xp increasing and not empty
interp1(x, xp, fp) ==
    IF ~QLess(xp[1], x) THEN fp[1]
    ELSE IF ~QLess(x, xp[Len(xp)]) THEN fp[Len(fp)]
    ELSE LET k == CHOOSE j \in 1..(Len(xp) - 1) :
                      ~QLess(x, xp[j]) /\ QLess(x, xp[j + 1])
             slope == QDiv(QSub(fp[k + 1], fp[k]), QSub(xp[k + 1], xp[k]))
         IN  QAdd(fp[k], QMul(slope, QSub(x, xp[k])))

interp(x, xp, fp) == [k \in 1..Len(x) |-> interp1(x[k], xp, fp)]

\* the grid every trace is brought to
ref_x == datasets[1].x

NeedsInterp(d) == Len(d.x) # Len(ref_x) \/ d.x # ref_x

\* np.interp raises ValueError when the sample points are empty
InterpRaises == \E i \in 1..Len(datasets) :
                    NeedsInterp(datasets[i]) /\ Len(datasets[i].x) = 0

\* interp_env["T<i>"]
interp_env(i) ==
    LET d == datasets[i]
    IN  IF NeedsInterp(d)
        THEN [x |-> ref_x, y |-> interp(ref_x, d.x, d.y)]
        ELSE [x |-> d.x, y |-> d.y]

\* np.fft.fftfreq(n, d)
fftfreq(n, d) ==
    [k \in 1..n |->
        QDiv(QInt(IF k - 1 < (n + 1) \div 2 THEN k - 1 ELSE k - 1 - n),
             QMul(d, QInt(n)))]

EvalRaise(m) == [exc |-> m, kind |-> "none", x |-> <<>>, y |-> <<>>, fill |-> FALSE]

EvalArray(a) == [exc |-> "", kind |-> "array", x |-> <<>>, y |-> a, fill |-> FALSE]

EvalPair(a, b) == [exc |-> "", kind |-> "tuple", x |-> a, y |-> b, fill |-> FALSE]

EvalOther(f) == [exc |-> "", kind |-> "other", x |-> <<>>, y |-> <<>>, fill |-> f]

\* the names a formula resolves: T1..Tn, the listed functions, np, and the
\* built-ins that eval adds to its globals
NameError(i) == EvalRaise("name 'T" \o ToString(i) \o "' is not defined")

TY(i) == interp_env(i).y

TX(i) == interp_env(i).x

np_abs(a) == [k \in 1..Len(a) |-> QAbs(a[k])]

EvalExpr(expr) ==
    LET n == Len(datasets)
    IN  CASE expr = "T1.y - T2.y" ->
               IF n < 2 THEN NameError(2)
               ELSE EvalArray([k \in 1..Len(TY(1)) |-> QSub(TY(1)[k], TY(2)[k])])
          [] expr = "T2.y * 2" ->
               IF n < 2 THEN NameError(2) ELSE EvalArray(ScaleArr(TY(2), QInt(2)))
          [] expr = "T9.y" ->
               IF n < 9 THEN NameError(9) ELSE EvalArray(TY(9))
          [] expr = "T1.y +" -> EvalRaise("invalid syntax")
          [] expr = "1 + 1" -> EvalOther(FALSE)
          [] expr = "1 / T1.y" ->
               EvalArray([k \in 1..Len(TY(1)) |-> QDiv(QInt(1), TY(1)[k])])
          [] expr = "np.abs(T1.y)" -> EvalArray(np_abs(TY(1)))
          [] expr = "abs([1, -1, 1])" ->
               EvalArray(np_abs(<<QInt(1), QInt(-1), QInt(1)>>))
          [] expr = "T1.y[0:1]" -> EvalArray(Slice(TY(1), 0, 1))
          [] expr = "(T1.x[0:1], T1.y[0:1])" ->
               EvalPair(Slice(TX(1), 0, 1), Slice(TY(1), 0, 1))
          [] expr = "(T1.x[0:0], T1.y[0:0])" ->
               EvalPair(Slice(TX(1), 0, 0), Slice(TY(1), 0, 0))
          [] expr = "T1.y.fill(0)" -> EvalOther(TRUE)

\* ndarray.fill(0) on the array object of T1: it is the stored y of trace 1
\* (env holds the stored arrays, not copies) and of every trace whose y is
\* a view of it
Filled(d) == [d EXCEPT !.y = [k \in 1..Len(d.y) |-> QInt(0)]]

AfterEval(e) ==
    IF e.fill
    THEN [i \in 1..Len(datasets) |->
             IF i = 1 \/ datasets[i].yview THEN Filled(datasets[i]) ELSE datasets[i]]
    ELSE datasets

\* variant: every result that is not a pair gets the frequency bins
ResultXAlwaysBins(e, expr) ==
    IF e.kind = "tuple" THEN e.x
    ELSE fftfreq(Len(ref_x), QSub(ref_x[2], ref_x[1]))

\* the x-array given to the result e of formula expr
ResultX(e, expr) ==
    IF e.kind = "tuple" THEN e.x
    ELSE IF expr \in FftExprs
    THEN fftfreq(Len(ref_x), QSub(ref_x[2], ref_x[1]))
    ELSE ref_x

\* the message of the warning box for the result e of formula expr, ""
\* when the result is accepted; dx = ref_x[1] - ref_x[0] raises IndexError
\* for fewer than 2 grid points
MathFailure(e, expr) ==
    IF e.exc # "" THEN e.exc
    ELSE IF e.kind # "tuple" /\ expr \in FftExprs /\ Len(ref_x) < 2
    THEN "index 1 is out of bounds"
    ELSE IF e.kind = "other" THEN "Expression did not return array"
    ELSE IF ~AllFinite(e.y) THEN "Result contains NaN/Inf values"
    ELSE ""

\* apply_math_expr once eval has ended as e, with failure = MathFailure
Evaluated(e, expr, failure, l0) ==
    IF failure # ""
    THEN /\ last' = [l0 EXCEPT !.outcome = "notice", !.msg = failure]
         /\ datasets' = AfterEval(e)
         /\ UNCHANGED <<table, connects, xlim, ylim, grid>>
    ELSE InstallOr(add_dataset(ResultX(e, expr), e.y, expr, e.kind = "tuple"),
                   l0, "escaped")

\* the handler ends with the exception m leaving it
Escaped(l0, m) ==
    /\ last' = [l0 EXCEPT !.outcome = "escaped", !.msg = m]
    /\ UNCHANGED <<datasets, table, connects, xlim, ylim, grid>>

\* apply_math_expr(expr), called by open_math_dialog when the dialog is
\* accepted with the text expr
apply_math_expr(expr) ==
    /\ Tick
    /\ ~dlg.open
    /\ Len(datasets) < MaxTraces
    /\ LET l0 == [Idle EXCEPT !.op = "math", !.arg = expr]
       IN  IF Len(datasets) = 0
           THEN \* self.datasets[0] raises IndexError outside the try block
                Escaped(l0, "list index out of range")
           ELSE IF InterpRaises
           THEN \* np.interp raises ValueError outside the try block
                Escaped(l0, "array of sample points is empty")
           ELSE Evaluated(EvalExpr(expr), expr,
                          MathFailure(EvalExpr(expr), expr), l0)
    /\ UNCHANGED <<auto_scale_x, dlg, call, panel, beam>>

(***************************************************************************)
(* Table edits and range sliders.                                          *)
(***************************************************************************)
NewNames == {"renamed"}

\* the user edits the Name cell of row r: cellChanged -> on_table_name_changed
on_table_name_changed(r, new_name) ==
    /\ Tick
    /\ ~dlg.open
    /\ r \in 1..Len(table)
    /\ table[r].name # new_name
    /\ table' = [table EXCEPT ![r].name = new_name]
    /\ datasets' = [datasets EXCEPT ![r].name = new_name,
                                    ![r].line.label = new_name]
    /\ last' = [Idle EXCEPT !.op = "table"]
    /\ UNCHANGED <<connects, auto_scale_x, xlim, ylim, grid, dlg, call, panel, beam>>

\* variant: the handler redraws all traces after setting the visibility
on_table_item_changed_redraws(r) ==
    /\ Tick
    /\ ~dlg.open
    /\ r \in 1..Len(table)
    /\ LET tbl == [table EXCEPT ![r].visible = ~table[r].visible]
           up == update_plot(datasets, tbl, auto_scale_x, xlim, ylim, grid)
       IN  /\ table' = tbl
           /\ datasets' = up.datasets
    /\ last' = [Idle EXCEPT !.op = "table", !.idx = r, !.runs = connects,
                            !.arg = IF table[r].visible THEN "hide" ELSE "show"]
    /\ UNCHANGED <<connects, auto_scale_x, xlim, ylim, grid, dlg, call, panel, beam>>

\* the user flips the Visible check box of row r: itemChanged ->
\* on_table_item_changed, once per connection made by add_dataset; every
\* run sets the line to the state of the box
on_table_item_changed(r) ==
    /\ Tick
    /\ ~dlg.open
    /\ r \in 1..Len(table)
    /\ table' = [table EXCEPT ![r].visible = ~table[r].visible]
    /\ datasets' = [datasets EXCEPT ![r].line.visible = ~table[r].visible]
    /\ last' = [Idle EXCEPT !.op = "table", !.idx = r, !.runs = connects,
                            !.arg = IF table[r].visible THEN "hide" ELSE "show"]
    /\ UNCHANGED <<connects, auto_scale_x, xlim, ylim, grid, dlg, call, panel, beam>>

\* the user edits the Y-Scale cell of row r: no handler acts on column 5
edit_scale(r, text) ==
    /\ Tick
    /\ ~dlg.open
    /\ r \in 1..Len(table)
    /\ table[r].yscale # text
    /\ table' = [table EXCEPT ![r].yscale = text]
    /\ last' = [Idle EXCEPT !.op = "table"]
    /\ UNCHANGED <<datasets, connects, auto_scale_x, xlim, ylim, grid, dlg, call, panel, beam>>

\* variant: the high handle's sample is left out
RangeSliceExclusive(a, min_idx, max_idx) == Slice(a, min_idx, max_idx)

\* a[min_idx:max_idx+1]
RangeSlice(a, min_idx, max_idx) == Slice(a, min_idx, max_idx + 1)

\* the user moves one slider of row r to v: valueChanged -> on_range_changed
on_range_changed(r, low, v) ==
    /\ Tick
    /\ ~dlg.open
    /\ r \in 1..Len(table)
    /\ table[r].sliders
    /\ v \in 0..(Len(datasets[r].x) - 1)
    /\ v # (IF low THEN table[r].smin ELSE table[r].smax)
    /\ LET min_idx == IF low THEN v ELSE table[r].smin
           max_idx == IF low THEN table[r].smax ELSE v
           ds == datasets[r]
       IN  /\ table' = [table EXCEPT ![r].smin = min_idx, ![r].smax = max_idx]
           /\ datasets' =
                  IF min_idx >= max_idx THEN datasets
                  ELSE [datasets EXCEPT
                           ![r].line.xdata = RangeSlice(ds.x, min_idx, max_idx),
                           ![r].line.ydata = RangeSlice(ds.y, min_idx, max_idx)]
           /\ last' = [Idle EXCEPT !.op = "range",
                          !.outcome = IF min_idx >= max_idx THEN "ignored" ELSE "ok"]
    /\ UNCHANGED <<connects, auto_scale_x, xlim, ylim, grid, dlg, call, panel, beam>>

\* line styles offered by the Style combo box of a row
LineStyles == {"-", "--", "-.", ":"}

\* the user picks another entry of the Style combo of row r:
\* currentTextChanged -> on_style_changed
on_style_changed(r, style) ==
    /\ Tick
    /\ ~dlg.open
    /\ r \in 1..Len(table)
    /\ table[r].style # style
    /\ table' = [table EXCEPT ![r].style = style]
    /\ datasets' = [datasets EXCEPT ![r].line.linestyle = style]
    /\ last' = [Idle EXCEPT !.op = "table"]
    /\ UNCHANGED <<connects, auto_scale_x, xlim, ylim, grid, dlg, call, panel, beam>>

\* colours picked in the colour dialog
PickedColors == {"#ff0000"}

\* the user double-clicks the Color cell of row r and accepts colour c in
\* every colour dialog that opens: itemDoubleClicked -> change_color, once
\* per connection made by add_dataset
change_color(r, c) ==
    /\ Tick
    /\ ~dlg.open
    /\ r \in 1..Len(table)
    /\ table' = [table EXCEPT ![r].color = c]
    /\ datasets' = [datasets EXCEPT ![r].line.color = c]
    /\ last' = [Idle EXCEPT !.op = "color", !.idx = r, !.runs = connects]
    /\ UNCHANGED <<connects, auto_scale_x, xlim, ylim, grid, dlg, call, panel, beam>>

\* a handler ends with the call of update_plot that returned up
Redrawn(up, l0) ==
    /\ datasets' = up.datasets
    /\ xlim' = up.xlim
    /\ ylim' = up.ylim
    /\ grid' = up.grid
    /\ last' = IF up.raised THEN [l0 EXCEPT !.outcome = "escaped"] ELSE l0

\* the Auto-Scale X button is clicked: on_auto_scale_toggle
on_auto_scale_toggle ==
    /\ Tick
    /\ ~dlg.open
    /\ auto_scale_x' = ~auto_scale_x
    /\ LET l0 == [Idle EXCEPT !.op = "auto_scale"]
       IN  IF auto_scale_x
           THEN /\ last' = l0
                /\ UNCHANGED <<datasets, xlim, ylim, grid>>
           ELSE Redrawn(update_plot(datasets, table, TRUE, xlim, ylim, grid),
                        l0)
    /\ UNCHANGED <<table, connects, dlg, call, panel, beam>>

\* Axes.grid(visible, linestyle=style): called with line properties the
\* library enables the grid whatever visible is ("First parameter to grid()
\* is false, but line properties are supplied. The grid will be enabled.")
ax_grid(visible, style) == [on |-> TRUE, style |-> style]

\* the Toggle Grid button: _toggle_grid(state); the style combo shows the
\* style of the grid
_toggle_grid ==
    /\ Tick
    /\ ~dlg.open
    /\ grid_checkbox' = ~grid_checkbox
    /\ grid' = ax_grid(~grid_checkbox, grid.style)
    /\ last' = [Idle EXCEPT !.op = "grid"]
    /\ UNCHANGED <<datasets, table, connects, auto_scale_x, xlim, ylim, dlg,
                   call, logx_btn, logy_btn, beam>>

\* entries of the grid style combo box
GridStyles == {"-", "--", ":", "-."}

\* another entry of the grid style combo: _update_grid_style(style)
_update_grid_style(style) ==
    /\ Tick
    /\ ~dlg.open
    /\ style # grid.style
    /\ grid' = ax_grid(grid_checkbox, style)
    /\ last' = [Idle EXCEPT !.op = "grid"]
    /\ UNCHANGED <<datasets, table, connects, auto_scale_x, xlim, ylim, dlg,
                   call, panel, beam>>

\* the Toggle Log X button: toggle_logx(state).  The log scale is followed
\* from views that were set explicitly and lie right of zero: the limits the
\* library autoscales on a log axis are not rational numbers
toggle_logx ==
    /\ Tick
    /\ ~dlg.open
    /\ logx_btn \/ (~xlim.auto /\ QLess(QInt(0), xlim.lo))
    /\ logx_btn' = ~logx_btn
    /\ last' = [Idle EXCEPT !.op = "log"]
    /\ UNCHANGED <<datasets, table, connects, auto_scale_x, xlim, ylim, grid,
                   dlg, call, grid_checkbox, logy_btn, beam>>

\* the Toggle Log Y button: toggle_logy(state), as toggle_logx
toggle_logy ==
    /\ Tick
    /\ ~dlg.open
    /\ logy_btn \/ (~ylim.auto /\ QLess(QInt(0), ylim.lo))
    /\ logy_btn' = ~logy_btn
    /\ last' = [Idle EXCEPT !.op = "log"]
    /\ UNCHANGED <<datasets, table, connects, auto_scale_x, xlim, ylim, grid,
                   dlg, call, grid_checkbox, logx_btn, beam>>

\* where the cursor is in the view, as a share of its width and height
Cursors == {<<Q(1, 2), Q(1, 2)>>, <<Q(1, 4), Q(3, 4)>>}

\* factor of one scroll step
ScaleFactor(button) == IF button = "up" THEN Q(6, 5) ELSE Q(4, 5)

\* data-space position of a cursor at share f of the limits lim
CursorAt(lim, f) == QAdd(lim.lo, QMul(f, QSub(lim.hi, lim.lo)))

\* the limits zoom gives one axis: width * scale_factor around the cursor
Zoomed(lim, data, button, log) ==
    LET new_width == QMul(QSub(lim.hi, lim.lo), ScaleFactor(button))
        half == QDiv(new_width, QInt(2))
    IN  set_lim(lim, QSub(data, half), QAdd(data, half), log)

\* a scroll event: the callback zoom of _connect_zoom.  inaxes tells whether
\* the cursor is over the plotting axes, cur where it is in the view
zoom(inaxes, button, cur) ==
    /\ Tick
    /\ ~dlg.open
    /\ IF ~inaxes
       THEN UNCHANGED <<xlim, ylim>>
       ELSE /\ xlim' = Zoomed(xlim, CursorAt(xlim, cur[1]), button, logx_btn)
            /\ ylim' = Zoomed(ylim, CursorAt(ylim, cur[2]), button, logy_btn)
    /\ last' = [Idle EXCEPT !.op = "scroll", !.arg = button,
                            !.outcome = IF inaxes THEN "ok" ELSE "ignored"]
    /\ UNCHANGED <<datasets, table, connects, auto_scale_x, grid, dlg, call,
                   panel, beam>>

(***************************************************************************)
(* A direct call of one filter routine on an arbitrary array.              *)
(***************************************************************************)
CallVals == {QInt(-1), QInt(0), QInt(1)}

CallArrays == UNION {[1..n -> CallVals] : n \in 1..MaxLen}

CallInit ==
    call \in [state : {"ready"}, kind : FilterKinds, y : CallArrays,
              window : 0..MaxWin, poly : 1..MaxPoly, result : {Returned(<<>>)}]

run_call ==
    /\ call.state = "ready"
    /\ LET res == RunFilter(call.kind, call.y, call.window, call.poly)
       IN  call' = [call EXCEPT !.state = IF res.ok THEN "returned" ELSE "raised",
                                !.result = res]
    /\ UNCHANGED <<datasets, table, connects, auto_scale_x, xlim, ylim, grid, dlg, last, events, panel, beam>>

NextCall == run_call

InitCall == WidgetInit /\ CallInit /\ NoBeam

SpecCall == InitCall /\ [][NextCall]_vars

(***************************************************************************)
(* Beam_Graphix.Draw_QP (Graphics_Lib.py): the quadrupole record QP is a   *)
(* dict, here a function from the keys it holds to their values; the scene *)
(* is the sequence of the solids created so far.                           *)
(***************************************************************************)
QPKeys == {"HalfApature", "Len[m]", "Zpos"}

\* largest value of an entry of the quadrupole record
MaxQP == 3

\* the records with some or all of the three entries
QPRecords == UNION {[K -> 1..MaxQP] : K \in SUBSET QPKeys}

QPInit ==
    /\ scene = <<>>
    /\ qp \in [state : {"ready"}, QP : QPRecords]

vec(x, y, z) == <<x, y, z>>

\* shapes.circle(radius=r, angle1=0, angle2=pi/2)
circle(r) == [radius |-> r, angle1 |-> "0", angle2 |-> "pi/2"]

\* extrusion(path=[p0, p1], color=c, shape=[sh])
extrusion(p0, p1, c, sh) == [path |-> <<p0, p1>>, color |-> c, shape |-> sh]

\* variant: the pole radius is the half-aperture itself
PoleRUnscaled(poleRpos) == poleRpos

\* PoleR = 1.147 * poleRpos
PoleR(poleRpos) == QMul(Q(1147, 1000), poleRpos)

\* Draw_QP(QP) with the default Props.  The loop computes theta, x and y
\* for each pole and passes none of them on: the path of every extrusion
\* is [vec(0, 0, Zloc), vec(0, 0, Zloc + poleLen)]
Draw_QP ==
    /\ qp.state = "ready"
    /\ IF QPKeys \subseteq DOMAIN qp.QP
       THEN LET poleRpos == QInt(qp.QP["HalfApature"])
                poleLen == QInt(qp.QP["Len[m]"])
                Zloc == QInt(qp.QP["Zpos"])
                pole == extrusion(vec(QInt(0), QInt(0), Zloc),
                                  vec(QInt(0), QInt(0), QAdd(Zloc, poleLen)),
                                  "blue", circle(PoleR(poleRpos)))
            IN  scene' = scene \o [i \in 1..4 |-> pole]
       ELSE \* a KeyError inside the try block: message printed, return
            scene' = scene
    /\ qp' = [qp EXCEPT !.state = "returned"]
    /\ UNCHANGED <<datasets, table, connects, auto_scale_x, xlim, ylim, grid,
                   dlg, last, call, events, panel>>

NextQP == Draw_QP

InitQP == WidgetInit /\ call = NoCall /\ QPInit

SpecQP == InitQP /\ [][NextQP]_vars

(***************************************************************************)
(* The widget under the operations on the registry and the table.         *)
(***************************************************************************)
\* "Apply Filter" pressed: the polynomial order box matters to
\* Savitzky-Golay only and is left at its default 2 for the other kinds
FilterPressed ==
    \/ \E idx \in -1..(MaxTraces - 1), ftype \in {"Moving Average", "Cosine"},
          win \in 1..MaxWin : apply_filter(idx, ftype, win, 2)
    \/ \E idx \in -1..(MaxTraces - 1), win \in 1..MaxWin, poly \in 1..MaxPoly :
          apply_filter(idx, "Savitzky-Golay", win, poly)

Next ==
    \/ \E y \in SynthY : add_data(y)
    \/ open_filter_dialog
    \/ close_filter_dialog
    \/ FilterPressed
    \/ \E expr \in Exprs : apply_math_expr(expr)
    \/ \E r \in 1..MaxTraces, s \in NewNames : on_table_name_changed(r, s)
    \/ \E r \in 1..MaxTraces : on_table_item_changed(r)
    \/ \E r \in 1..MaxTraces, t \in ScaleTexts : edit_scale(r, t)
    \/ \E r \in 1..MaxTraces, low \in BOOLEAN, v \in 0..(SynthLen - 1) :
          on_range_changed(r, low, v)

Spec == Init /\ [][Next]_vars

\* the widget under "Add Data" and "Math Ops" alone
NextMath ==
    \/ \E y \in SynthY : add_data(y)
    \/ \E expr \in Exprs : apply_math_expr(expr)

SpecMath == Init /\ [][NextMath]_vars

\* the widget under "Add Data" and the filter dialog alone
NextFilter ==
    \/ \E y \in SynthY : add_data(y)
    \/ open_filter_dialog
    \/ close_filter_dialog
    \/ FilterPressed

SpecFilter == Init /\ [][NextFilter]_vars

\* the widget under "Add Data" and the edits of the table
NextTable ==
    \/ \E y \in SynthY : add_data(y)
    \/ \E r \in 1..MaxTraces : on_table_item_changed(r)
    \/ \E r \in 1..MaxTraces, t \in ScaleTexts : edit_scale(r, t)
    \/ \E r \in 1..MaxTraces, low \in BOOLEAN, v \in 0..(SynthLen - 1) :
          on_range_changed(r, low, v)
    \/ \E r \in 1..MaxTraces, st \in LineStyles : on_style_changed(r, st)
    \/ \E r \in 1..MaxTraces, c \in PickedColors : change_color(r, c)
    \/ on_auto_scale_toggle

SpecTable == Init /\ [][NextTable]_vars

\* the widget under "Add Data", the visibility boxes and the controls of
\* the axes
NextAxes ==
    \/ \E y \in SynthY : add_data(y)
    \/ \E r \in 1..MaxTraces : on_table_item_changed(r)
    \/ on_auto_scale_toggle
    \/ _toggle_grid
    \/ \E st \in GridStyles : _update_grid_style(st)
    \/ toggle_logx
    \/ toggle_logy
    \/ \E inaxes \in BOOLEAN, button \in {"up", "down"}, cur \in Cursors :
          zoom(inaxes, button, cur)

SpecAxes == Init /\ [][NextAxes]_vars

(***************************************************************************)
(* Properties.                                                             *)
(***************************************************************************)

\* C1: whenever a handler has returned, the table has one row per trace of
\* the registry, and row r shows trace r: its point count, and its name,
\* which is the label the trace was created with unless the user renamed it
C1_TableMatchesRegistry ==
    /\ Len(table) = Len(datasets)
    /\ \A r \in 1..Len(datasets) :
          /\ table[r].points = ToString(Len(datasets[r].x))
          /\ table[r].name = datasets[r].name
          /\ datasets[r].line.label = table[r].name
          /\ table[r].name = datasets[r].label \/ table[r].name \in NewNames

\* a formula was applied whose trace was stored although the redraw inside
\* add_dataset raised: the row of the new trace stays without its sliders
C1_Witness ==
    /\ Len(datasets) = 2
    /\ last.op = "math" /\ last.outcome = "escaped"
    /\ ~table[2].sliders
    /\ table[1].sliders

\* C3: a failure on the formula path is always reported as a notice: no
\* exception leaves open_math_dialog
C3_NoEscape == last.op = "math" => last.outcome # "escaped"

\* C2: a formula whose evaluation fails on a non-empty registry leaves the
\* registry (contents and length), the table and the rendered data as
\* they were
C2_FailedFormulaChangesNothing ==
    [][\A e \in Exprs :
          (/\ last'.outcome = "notice" /\ datasets # <<>>
           /\ apply_math_expr(e))
          => (datasets' = datasets /\ table' = table)]_vars

\* the formulas that reference no trace
NoRefExprs == {"1 + 1", "abs([1, -1, 1])"}

\* C4: on a non-empty registry a formula without any T<i> reference is
\* rejected with a notice and registers no trace
C4_NoReferenceRejected ==
    /\ (last.op = "math" /\ last.arg \in NoRefExprs /\ datasets # <<>>)
           => last.outcome = "notice"
    /\ \A r \in 1..Len(datasets) : datasets[r].label \notin NoRefExprs

\* C5: on a registry of two traces T1, T2 of equal length on the same grid,
\* "T1.y - T2.y" appends exactly one trace: y is the element-wise
\* difference, x the shared grid, the label the formula text; the stored
\* data of T1 and T2 do not change
C5_Difference ==
    [][(/\ Len(datasets) = 2
        /\ apply_math_expr("T1.y - T2.y")
        /\ Len(datasets[1].x) = Len(datasets[2].x)
        /\ datasets[1].x = datasets[2].x)
       => (/\ Len(datasets') = 3
           /\ Len(datasets'[3].y) = Len(datasets[1].y)
           /\ \A k \in 1..Len(datasets[1].y) :
                 datasets'[3].y[k] = QSub(datasets[1].y[k], datasets[2].y[k])
           /\ datasets'[3].x = datasets[1].x
           /\ datasets'[3].label = "T1.y - T2.y"
           /\ \A r \in 1..2 :
                 /\ datasets'[r].x = datasets[r].x
                 /\ datasets'[r].y = datasets[r].y
                 /\ datasets'[r].label = datasets[r].label)]_vars

\* the difference of two different traces on one grid has been registered
C5_Witness ==
    /\ Len(datasets) = 3
    /\ last.op = "math" /\ last.arg = "T1.y - T2.y" /\ last.outcome = "ok"
    /\ datasets[1].x = datasets[2].x
    /\ datasets[1].y # datasets[2].y
    /\ datasets[3].label = "T1.y - T2.y"

\* the formulas that use a name other than T1..Tn and the listed functions
ForeignExprs == {"np.abs(T1.y)"}

\* C6: a formula that uses a name outside T1..Tn and the allow-listed
\* functions creates no trace
C6_ForeignNameCreatesNoTrace ==
    \A r \in 1..Len(datasets) : datasets[r].label \notin ForeignExprs

\* the window Savitzky-Golay has to use for a window value w
OddWindow(w) == IF w % 2 = 0 THEN w + 1 ELSE w

\* parameters the filters must refuse for a source of N samples
BadFilterParams(ftype, win, poly, N) ==
    \/ ftype \in {"Moving Average", "Cosine"} /\ (win <= 0 \/ win > N)
    \/ ftype = "Savitzky-Golay" /\ poly >= OddWindow(win)

\* C7: Moving Average or Cosine with window <= 0 or window > N, and
\* Savitzky-Golay with polyorder >= window (made odd), fail: the failure is
\* reported, the dialog stays open, registry and table stay as they were.
\* (The spin box gives no window below 1: the routines are also called
\* directly with windows 0 and -1.)
C7_BadFilterParamsRejected ==
    [][/\ (last'.op = "filter" /\ last'.idx >= 0 /\ events' # events)
          => \A win \in 1..MaxWin, poly \in 1..MaxPoly :
                LET idx == last'.idx
                    ftype == last'.arg
                IN  (/\ BadFilterParams(ftype, win, poly,
                                        Len(datasets[idx + 1].y))
                     /\ apply_filter(idx, ftype, win, poly))
                    => (/\ last'.outcome = "notice"
                        /\ dlg'.open
                        /\ datasets' = datasets
                        /\ table' = table)
       /\ \A r \in 1..Len(datasets), win \in {-1, 0} :
             /\ ~moving_average(datasets[r].y, win).ok
             /\ ~cosine_smooth(datasets[r].y, win).ok]_vars

\* a window larger than the source was refused and the dialog is still open
C7_Witness ==
    /\ last.op = "filter" /\ last.outcome = "notice"
    /\ last.arg = "Moving Average"
    /\ last.msg = "Window larger than dataset"
    /\ dlg.open
    /\ Len(datasets) = 1 /\ Len(table) = 1

\* C8: sg_filter uses the window w+1 for an even w and w for an odd w, in
\* both checks (window <= len(y), polyorder < window) and in the smoothing
C8_EffectiveWindow ==
    (call.kind = "Savitzky-Golay" /\ call.state # "ready") =>
        LET e == OddWindow(call.window)
        IN  /\ call.state = "raised" <=> (e > Len(call.y) \/ call.poly >= e)
            /\ call.state = "returned" =>
                   call.result.y = savgol_filter(call.y, e, call.poly)

\* an even window w with polyorder w was accepted and smoothed with w+1
C8_Witness ==
    /\ call.kind = "Savitzky-Golay" /\ call.state = "returned"
    /\ call.window % 2 = 0
    /\ call.poly = call.window
    /\ call.window + 1 <= Len(call.y)

\* mean of the w samples of y around position i (1-based): positions
\* i - w \div 2 .. i + (w - 1) \div 2, a sample outside 1..N counting as zero
WindowMean(y, w, i) ==
    QMul(Q(1, w),
         SumArr([t \in 1..w |->
             LET j == i - (w \div 2) + (t - 1)
             IN  IF j >= 1 /\ j <= Len(y) THEN y[j] ELSE QInt(0)]))

\* C9: for 0 < w <= N moving_average returns N values, value i being the
\* mean over the w-wide zero-padded window centred on i (for an even w the
\* window reaches w/2 samples to the left and w/2 - 1 to the right)
C9_MovingAverage ==
    (/\ call.kind = "Moving Average" /\ call.state # "ready"
     /\ 0 < call.window /\ call.window <= Len(call.y)) =>
        /\ call.state = "returned"
        /\ Len(call.result.y) = Len(call.y)
        /\ \A i \in 1..Len(call.y) :
              call.result.y[i] = WindowMean(call.y, call.window, i)

\* an even window was averaged over an array whose ends are not zero
C9_Witness ==
    /\ call.kind = "Moving Average" /\ call.state = "returned"
    /\ call.window = 2 /\ Len(call.y) = 3
    /\ call.y[1] = QInt(1) /\ call.y[3] = QInt(-1)
    /\ call.result.y[1] = Q(1, 2)

\* suffix the label of a filtered trace must carry
KindSuffix(ftype) ==
    IF ftype = "Moving Average" THEN "_MA"
    ELSE IF ftype = "Cosine" THEN "_Cosine" ELSE "_SG"

\* C10: a successful filter application on source trace i appends exactly
\* one trace at the end, labelled T<i>_MA / T<i>_Cosine / T<i>_SG, with the
\* source's x-array and as many y values; the stored arrays and labels of
\* all existing traces stay as they were
C10_FilterAppendsOneTrace ==
    [][(last'.op = "filter" /\ last'.outcome = "ok" /\ events' # events)
       => \A win \in 1..MaxWin, poly \in 1..MaxPoly :
          LET idx == last'.idx
              ftype == last'.arg
          IN
          apply_filter(idx, ftype, win, poly)
          => LET n == Len(datasets)
             IN  /\ Len(datasets') = n + 1
                 /\ Len(table') = n + 1
                 /\ datasets'[n + 1].label =
                        "T" \o ToString(idx + 1) \o KindSuffix(ftype)
                 /\ datasets'[n + 1].x = datasets[idx + 1].x
                 /\ Len(datasets'[n + 1].y) = Len(datasets[idx + 1].y)
                 /\ \A r \in 1..n :
                       /\ datasets'[r].x = datasets[r].x
                       /\ datasets'[r].y = datasets[r].y
                       /\ datasets'[r].label = datasets[r].label]_vars

\* a Savitzky-Golay result of the second trace has been registered
C10_Witness ==
    /\ last.op = "filter" /\ last.outcome = "ok"
    /\ last.arg = "Savitzky-Golay" /\ last.idx = 1
    /\ Len(datasets) = 3
    /\ datasets[3].label = "T2_SG"
    /\ datasets[3].y # datasets[2].y

\* the scale factor of row r: its Y-Scale text as a float, 1.0 if it does
\* not parse
ScaleOf(r) == IF float_ok(table[r].yscale) THEN float(table[r].yscale) ELSE QInt(1)

\* C11: whenever a handler has returned, the rendered y-data of every trace
\* is its y_samples over the rendered sub-range times the scale factor of
\* its Y-Scale cell: a scale edit shows without a further event, and a
\* range change on a scaled trace renders scaled data
C11_RenderedIsScaled ==
    \A r \in 1..Len(datasets) :
        \E lo \in 0..Len(datasets[r].x), hi \in 0..Len(datasets[r].x) :
            /\ datasets[r].line.xdata = Slice(datasets[r].x, lo, hi)
            /\ datasets[r].line.ydata =
                   ScaleArr(Slice(datasets[r].y, lo, hi), ScaleOf(r))

\* C12: a flip of a trace's Visible box changes nothing but the visibility
\* of its rendering, which follows the box: stored x, y and scale factor
\* stay, rendered x/y data (and so the sub-range), colour and style stay,
\* and no other trace, row or view limit changes; hence off followed by on
\* gives back the rendering the trace had before it was hidden
C12_VisibilityToggleKeepsTrace ==
    [][\A r \in 1..MaxTraces :
          on_table_item_changed(r)
          => /\ datasets'[r].x = datasets[r].x
             /\ datasets'[r].y = datasets[r].y
             /\ table'[r].yscale = table[r].yscale
             /\ datasets'[r].line.visible = table'[r].visible
             /\ table'[r].visible = ~table[r].visible
             /\ datasets'[r].line.xdata = datasets[r].line.xdata
             /\ datasets'[r].line.ydata = datasets[r].line.ydata
             /\ datasets'[r].line.color = datasets[r].line.color
             /\ datasets'[r].line.linestyle = datasets[r].line.linestyle
             /\ \A q \in 1..Len(datasets) :
                   q # r => datasets'[q] = datasets[q] /\ table'[q] = table[q]
             /\ Len(datasets') = Len(datasets)
             /\ xlim' = xlim /\ ylim' = ylim]_vars

\* a trace rendered over a sub-range has been hidden and shown again
C12_Witness ==
    /\ last.op = "table" /\ last.arg = "show"
    /\ datasets[last.idx].line.visible
    /\ table[last.idx].visible
    /\ Len(datasets[last.idx].line.xdata) < Len(datasets[last.idx].x)

\* the x samples of the traces of registry ds whose row in tbl is ticked
VisibleX(ds, tbl) ==
    UNION {{ds[r].x[k] : k \in 1..Len(ds[r].x)} :
              r \in {q \in 1..Len(ds) : tbl[q].visible}}

\* C13: with auto-scale on, after every redraw (a trace is added, or the
\* auto-scale button is switched on): when visible traces span more than
\* one x value, the horizontal limits are the smallest and the largest x
\* sample of all visible traces; when no trace is visible or none exists,
\* the horizontal limits are those from before the redraw
C13_AutoScaleLimits ==
    [][(/\ auto_scale_x'
        /\ last'.op \in {"add_data", "auto_scale"}
        /\ last'.outcome = "ok"
        /\ events' # events)
       => LET S == VisibleX(datasets', table')
          IN  IF \E a \in S, b \in S : a # b
              THEN /\ xlim'.lo \in S /\ xlim'.hi \in S
                   /\ \A v \in S : ~QLess(v, xlim'.lo) /\ ~QLess(xlim'.hi, v)
              ELSE S = {} => (xlim'.lo = xlim.lo /\ xlim'.hi = xlim.hi)]_vars

\* samples low..high (0-based, both included) of array a
Inclusive(a, low, high) == [k \in 1..(high - low + 1) |-> a[low + k]]

\* C14: a slider change of row r that leaves low >= high is ignored:
\* registry (stored and rendered data of every trace) and view limits stay
\* as they were; one that leaves low < high renders samples low..high, both
\* included, of trace r and touches no other trace and no stored data
C14_RangeChange ==
    [][\A r \in 1..MaxTraces, lw \in BOOLEAN, v \in 0..(SynthLen - 1) :
          on_range_changed(r, lw, v)
          => LET low == table'[r].smin
                 high == table'[r].smax
             IN  IF low >= high
                 THEN /\ datasets' = datasets
                      /\ xlim' = xlim /\ ylim' = ylim
                      /\ last'.outcome = "ignored"
                 ELSE /\ datasets'[r].line.xdata =
                             Inclusive(datasets[r].x, low, high)
                      /\ datasets'[r].line.ydata \in
                             {Inclusive(datasets[r].y, low, high),
                              ScaleArr(Inclusive(datasets[r].y, low, high),
                                       ScaleOf(r))}
                      /\ datasets'[r].x = datasets[r].x
                      /\ datasets'[r].y = datasets[r].y
                      /\ \A q \in 1..Len(datasets) :
                            q # r => datasets'[q] = datasets[q]
                      /\ Len(datasets') = Len(datasets)]_vars

\* a range change was accepted and the trace is rendered over fewer samples
C14_Witness ==
    /\ last.op = "range" /\ last.outcome = "ok"
    /\ \E r \in 1..Len(datasets) :
          /\ table[r].sliders /\ table[r].smin < table[r].smax
          /\ Len(datasets[r].line.xdata) = table[r].smax - table[r].smin + 1
          /\ Len(datasets[r].line.xdata) < Len(datasets[r].x)

\* the view new is old scaled by factor f around the data position c
ScaledAround(old, new, f, c) ==
    /\ QSub(new.hi, new.lo) = QMul(QSub(old.hi, old.lo), f)
    /\ QAdd(new.lo, new.hi) = QMul(QInt(2), c)

\* C15: a scroll step over the axes gives each axis a view of the old
\* width times 1.2 (up) or 0.8 (down), centred on the cursor's data
\* position (so up followed by down at one position leaves 0.96 of the
\* width); a scroll step outside the axes leaves the limits alone; no
\* scroll step changes the registry
C15_ScrollZoom ==
    [][\A inaxes \in BOOLEAN, button \in {"up", "down"}, cur \in Cursors :
          zoom(inaxes, button, cur)
          => /\ datasets' = datasets
             /\ IF inaxes
                THEN LET f == IF button = "up" THEN Q(12, 10) ELSE Q(8, 10)
                     IN  /\ ScaledAround(xlim, xlim', f, CursorAt(xlim, cur[1]))
                         /\ ScaledAround(ylim, ylim', f, CursorAt(ylim, cur[2]))
                ELSE xlim' = xlim /\ ylim' = ylim]_vars

\* C16: every trace of the registry has as many x as y samples, and at
\* least one, whatever formulas were evaluated
C16_TraceArraysWellFormed ==
    \A r \in 1..Len(datasets) :
        /\ Len(datasets[r].x) = Len(datasets[r].y)
        /\ Len(datasets[r].x) >= 1

\* C17: Draw_QP returns without adding a solid when one of the entries
\* half-aperture, length, z position is missing; with all three it adds
\* exactly four pole solids, each of cross-section radius 1.147 times the
\* half-aperture and swept from the z position to z position + length
C17_DrawQP ==
    qp.state = "returned"
    => IF \E k \in QPKeys : k \notin DOMAIN qp.QP
       THEN scene = <<>>
       ELSE /\ Len(scene) = 4
            /\ \A i \in 1..4 :
                  /\ QMul(scene[i].shape.radius, QInt(1000)) =
                         QInt(1147 * qp.QP["HalfApature"])
                  /\ scene[i].path[1][3] = QInt(qp.QP["Zpos"])
                  /\ scene[i].path[2][3] =
                         QInt(qp.QP["Zpos"] + qp.QP["Len[m]"])

\* a quadrupole of half-aperture 2 has been drawn
C17_Witness ==
    /\ qp.state = "returned"
    /\ DOMAIN qp.QP = QPKeys
    /\ qp.QP["HalfApature"] = 2
    /\ Len(scene) = 4
    /\ scene[1].shape.radius = Q(1147, 500)

\* trace r of registry ds is rendered over the samples its sliders in tbl
\* select
RenderedOverSelection(ds, tbl, r) ==
    /\ tbl[r].sliders
    /\ tbl[r].smin < tbl[r].smax
    /\ ds[r].line.xdata = Inclusive(ds[r].x, tbl[r].smin, tbl[r].smax)

\* C18: an accepted range selection persists: a trace rendered over the
\* samples low..high its sliders select is still rendered over them after
\* any event that does not move its sliders (a trace is added, a filter or
\* formula is applied, auto-scale is toggled)
C18_RangeSelectionPersists ==
    [][\A r \in 1..Len(datasets) :
          (/\ RenderedOverSelection(datasets, table, r)
           /\ table'[r].smin = table[r].smin
           /\ table'[r].smax = table[r].smax)
          => RenderedOverSelection(datasets', table', r)]_vars

\* C19: the common grid is the x-array of the first trace the formula
\* refers to: "T2.y * 2", which refers to T2 only, registers a trace on
\* T2's own x_samples whose values are twice T2's stored y_samples, also
\* when T2's grid differs from T1's
C19_GridOfFirstReferencedTrace ==
    [][(/\ Len(datasets) >= 2
        /\ last'.op = "math" /\ last'.outcome = "ok"
        /\ apply_math_expr("T2.y * 2"))
       => LET n == Len(datasets)
          IN  /\ Len(datasets') = n + 1
              /\ datasets'[n + 1].x = datasets[2].x
              /\ datasets'[n + 1].y = ScaleArr(datasets[2].y, QInt(2))]_vars

\* C20: whenever a handler has returned, the grid of the chart is visible
\* exactly when the Toggle Grid button is checked: once switched off, no
\* redraw brings the grid back until the user switches it on
C20_GridFollowsToggle == grid.on <=> grid_checkbox

\* transverse position (x, y) of the start of the path of pole solid i
PolePos(i) == <<scene[i].path[1][1], scene[i].path[1][2]>>

\* (x, y) lies at distance rad from the beam axis at the angle
\* theta = (i/2)*pi + pi/4: x*x + y*y = rad*rad, |x| = |y|, and the signs
\* of x and y are those of cos(theta) and sin(theta)
AtPoleAngle(p, i, rad) ==
    LET zero == QInt(0)
    IN  /\ QAdd(QMul(p[1], p[1]), QMul(p[2], p[2])) = QMul(rad, rad)
        /\ QMul(p[1], p[1]) = QMul(p[2], p[2])
        /\ IF i \in {0, 3} THEN QLess(zero, p[1]) ELSE QLess(p[1], zero)
        /\ IF i \in {0, 1} THEN QLess(zero, p[2]) ELSE QLess(p[2], zero)

\* C21: for each pole i in 0..3 Draw_QP renders the pole solid at radial
\* distance PoleR + half-aperture from the beam axis at the angle
\* theta_i = (i/2)*pi + pi/4, so the four poles lie at four pairwise
\* distinct transverse positions, none of them on the beam axis
C21_PolesAroundBore ==
    (qp.state = "returned" /\ QPKeys \subseteq DOMAIN qp.QP)
    => LET poleRpos == QInt(qp.QP["HalfApature"])
           rad == QAdd(PoleR(poleRpos), poleRpos)
       IN  /\ Len(scene) = 4
           /\ \A i \in 0..3 : AtPoleAngle(PolePos(i + 1), i, rad)
           /\ \A i, j \in 1..4 : i # j => PolePos(i) # PolePos(j)

\* the last event was one double-activation of a colour cell or one change
\* of a visibility check box
TableItemEvent ==
    \/ last.op = "color"
    \/ last.op = "table" /\ last.arg \in {"hide", "show"}

\* C22: for a registry of any size n >= 1 a single user event on the table
\* runs its handler exactly once: one double-activation of a colour cell
\* opens the colour picker once, one change of a visibility check box runs
\* on_table_item_changed once, however many traces were added before
C22_HandlerRunsOnce == TableItemEvent => last.runs = 1

====
